---- MODULE Spec2Model ----
(***************************************************************************)
(* Real-time session protocol of the SpeakMate backend:                    *)
(*   backend/app/api/websocket/session_manager.py  (SessionManager)        *)
(*   backend/app/api/websocket/handlers.py         (MessageHandler)        *)
(*   backend/app/api/websocket/protocol.py         (SessionContext)        *)
(*                                                                         *)
(* Every coroutine runs on one asyncio event loop.  A task keeps the loop  *)
(* between two awaits, so one action of this module is the code that runs  *)
(* from the completion of one await to the start of the next one.  The     *)
(* outcome of a transport write (frame handed to the socket, or exception  *)
(* because the socket is closed) is fixed where send_text is called; the   *)
(* except branch runs when the task is resumed.                            *)
(***************************************************************************)
EXTENDS Integers, Sequences, FiniteSets, TLC

\* ------------------------------------------------------------------ bounds
\* replay-buffer capacity, scaled down from the 100 of SessionManager.__init__
max_buffer_size == 3
\* largest server_seq at which a new operation is still accepted
MaxSeq == 3
\* the clock advances in steps of TimeStep seconds up to MaxTime
TimeStep == 200
MaxTime == 450
\* audio chunks accepted per session
MaxChunks == 1

\* ------------------------------------------------------- program constants
reconnect_window == 300

SessionIds == {"s1"}
\* sockets, numbered in the order in which they are accepted
WebSockets == {1, 2}

\* the sockets served by the /ws/conversation/{session_id} route, one
\* coroutine each, and the session ids their paths can carry
Endpoints == {1, 2}

ConversationIds == {"c1", "c2"}

INITIALIZING == "initializing"
READY == "ready"
LISTENING == "listening"
PROCESSING == "processing"
AI_SPEAKING == "ai_speaking"
PAUSED == "paused"
ANALYZING == "analyzing"
COMPLETED == "completed"
ERROR == "error"

SessionState ==
    {INITIALIZING, READY, LISTENING, PROCESSING, AI_SPEAKING, PAUSED,
     ANALYZING, COMPLETED, ERROR}

\* --------------------------------------------------------------- variables
VARIABLES
    sessions,           \* keys of SessionManager.sessions
    context,            \* the SessionContext objects, by session id
    connections,        \* SessionManager.connections: session id -> socket
    pending_reconnect,  \* SessionManager.pending_reconnect: id -> expiry
    message_buffers,    \* SessionManager.message_buffers: id -> messages
    delivered,          \* frames written to open sockets, in write order
    db_sessions,        \* session rows of the storage collaborator
    wsOpen,             \* socket -> is the transport still open
    now,                \* datetime.utcnow(), in seconds
    pc,                 \* connection task -> the await it is suspended in
    tsid,               \* connection task -> session id it serves
    fail,               \* connection task -> did its pending write raise
    missed,             \* connection task -> messages still to replay
    resumeInfo,         \* connection task -> arguments of its resume
    sweep_pc,           \* cleanup task: "idle" or suspended in "end_db"
    sweep_expired,      \* cleanup task: expired ids still to process
    sweep_due,          \* ids that were PAUSED past their window when a
                        \* cleanup pass started
    active_connections, \* ConnectionManager.active_connections: id -> socket
    session_data,       \* ConnectionManager.session_data: id -> turn_count
    cpc,                \* /ws/conversation coroutine -> its suspended await
    csid                \* /ws/conversation coroutine -> its path session id

mgrvars ==
    <<sessions, context, connections, pending_reconnect, message_buffers,
      delivered>>

taskvars == <<pc, tsid, fail, missed, resumeInfo>>

sweepvars == <<sweep_pc, sweep_expired, sweep_due>>

convvars == <<active_connections, session_data, cpc, csid>>

corevars == <<mgrvars, db_sessions, wsOpen, now, taskvars, sweepvars>>

vars ==
    <<sessions, context, connections, pending_reconnect, message_buffers,
      delivered, db_sessions, wsOpen, now, pc, tsid, fail, missed,
      resumeInfo, sweep_pc, sweep_expired, sweep_due, active_connections,
      session_data, cpc, csid>>

\* ------------------------------------------------------------ dict helpers
DictSet(d, k, v) == [x \in DOMAIN d \cup {k} |-> IF x = k THEN v ELSE d[x]]

DictDel(d, k) == [x \in DOMAIN d \ {k} |-> d[x]]

EmptyDict == [x \in {} |-> 0]

\* the manager's tables and the context objects as one value
Mgr ==
    [sessions |-> sessions, context |-> context, connections |-> connections,
     pending_reconnect |-> pending_reconnect,
     message_buffers |-> message_buffers, delivered |-> delivered]

Commit(m) ==
    /\ sessions' = m.sessions
    /\ context' = m.context
    /\ connections' = m.connections
    /\ pending_reconnect' = m.pending_reconnect
    /\ message_buffers' = m.message_buffers
    /\ delivered' = m.delivered

\* ------------------------------------------------ protocol.py: the messages
ServerMessage(type, seq) == [type |-> type, seq |-> seq]

\* a context whose sequence counter starts at one
NewSessionContextSeqOne(t) ==
    [state |-> READY, client_seq |-> 0, server_seq |-> 1, turn_count |-> 0,
     audio_chunks_received |-> 0, total_audio_ms |-> 0,
     last_activity_at |-> t]

\* SessionContext(...) as built by create_session
NewSessionContext(t) ==
    [state |-> READY, client_seq |-> 0, server_seq |-> 0, turn_count |-> 0,
     audio_chunks_received |-> 0, total_audio_ms |-> 0,
     last_activity_at |-> t]

\* SessionContext.increment_server_seq: works on the object, in the table
\* or not
increment_server_seq(m, s) ==
    [m EXCEPT !.context[s].server_seq = @ + 1]

\* ------------------------------------------------ SessionManager operations
update_state(m, s, st) ==
    IF s \in m.sessions
    THEN [m EXCEPT !.context[s].state = st,
                   !.context[s].last_activity_at = now]
    ELSE m

record_audio_chunk(m, s, duration_ms) ==
    IF s \in m.sessions
    THEN [m EXCEPT !.context[s].audio_chunks_received = @ + 1,
                   !.context[s].total_audio_ms = @ + duration_ms,
                   !.context[s].last_activity_at = now]
    ELSE m

\* a turn counter that is not advanced
turn_not_counted(m, s) == m

increment_turn(m, s) ==
    IF s \in m.sessions
    THEN [m EXCEPT !.context[s].turn_count = @ + 1]
    ELSE m

\* a disconnect that leaves the socket attached
disconnect_keeps_socket(m, s) ==
    IF s \notin m.sessions
    THEN m
    ELSE [m EXCEPT
            !.pending_reconnect = DictSet(@, s, now + reconnect_window),
            !.context[s].state = PAUSED]

handle_disconnect(m, s) ==
    IF s \notin m.sessions
    THEN m
    ELSE [m EXCEPT
            !.pending_reconnect = DictSet(@, s, now + reconnect_window),
            !.context[s].state = PAUSED,
            !.connections = DictDel(@, s)]

\* a trim that keeps the oldest entries
FirstN(buffer, n) ==
    IF Len(buffer) > n THEN SubSeq(buffer, 1, n) ELSE buffer

\* buffer[-max_buffer_size:]
LastN(buffer, n) ==
    IF Len(buffer) > n
    THEN SubSeq(buffer, Len(buffer) - n + 1, Len(buffer))
    ELSE buffer

\* send_message up to its await: buffer the message, then write it if a
\* socket is attached.  awaited: the caller is suspended in send_text;
\* failed: that write raises.
send_message(m, s, msg) ==
    LET m1 == IF s \in DOMAIN m.message_buffers
              THEN [m EXCEPT !.message_buffers[s] =
                        LastN(Append(@, msg), max_buffer_size)]
              ELSE m
    IN  IF s \in DOMAIN m1.connections
        THEN IF wsOpen[m1.connections[s]]
             THEN [m |-> [m1 EXCEPT !.delivered =
                            Append(@, [sid |-> s, ws |-> m1.connections[s],
                                       msg |-> msg])],
                   awaited |-> TRUE, failed |-> FALSE]
             ELSE [m |-> m1, awaited |-> TRUE, failed |-> TRUE]
        ELSE [m |-> m1, awaited |-> FALSE, failed |-> FALSE]

\* send_message after its await: the except branch
send_message_done(m, s, failed) ==
    IF failed THEN handle_disconnect(m, s) ELSE m

\* end_session up to the storage write
end_session_begin(m, s) ==
    IF s \in m.sessions
    THEN [m EXCEPT !.context[s].state = ANALYZING]
    ELSE m

\* an end that drops the record and the buffer as well
end_session_drops_record(m, s) ==
    [m EXCEPT !.connections = DictDel(@, s),
              !.pending_reconnect = DictDel(@, s),
              !.context[s].state = COMPLETED,
              !.sessions = @ \ {s},
              !.message_buffers = DictDel(@, s)]

\* end_session after the storage write
end_session_finish(m, s) ==
    [m EXCEPT !.connections = DictDel(@, s),
              !.pending_reconnect = DictDel(@, s),
              !.context[s].state = COMPLETED]

\* a replay that starts at the acknowledged message itself
MissedFromAcked(buffer, last_seq) ==
    SelectSeq(buffer, LAMBDA msg : msg.seq >= last_seq)

\* messages of the buffer a resume with last_seq replays
MissedMessages(buffer, last_seq) ==
    SelectSeq(buffer, LAMBDA msg : msg.seq > last_seq)

\* a faulty window test that never finds the window elapsed
WindowNeverExpired(pr, s, t) == FALSE

\* resume_session: the marker of s is there and its expiry has passed
WindowExpired(pr, s, t) == s \in DOMAIN pr /\ t > pr[s]

\* resume_session from the window check to the replay: drop the marker,
\* attach the socket
resume_attach(m, ws, s) ==
    [m EXCEPT !.pending_reconnect = DictDel(@, s),
              !.connections = DictSet(@, s, ws),
              !.context[s].last_activity_at = now]

\* _replay_messages: one websocket.send_text(msg.to_json())
replay_write(m, ws, s, msg) ==
    IF wsOpen[ws]
    THEN [m EXCEPT !.delivered = Append(@, [sid |-> s, ws |-> ws, msg |-> msg])]
    ELSE m

\* a registration that leaves the replay buffer out
register_without_buffer(m, ws, s) ==
    [m EXCEPT !.sessions = @ \cup {s},
              !.context = DictSet(@, s, NewSessionContext(now)),
              !.connections = DictSet(@, s, ws)]

\* create_session after the storage insert: the three tables together
register_session(m, ws, s) ==
    [m EXCEPT !.sessions = @ \cup {s},
              !.context = DictSet(@, s, NewSessionContext(now)),
              !.connections = DictSet(@, s, ws),
              !.message_buffers = DictSet(@, s, <<>>)]

\* cleanup_expired_sessions: the ids whose window has elapsed
ExpiredIds(pr, t) == {s \in DOMAIN pr : t > pr[s]}

\* cleanup_expired_sessions: the three pops
evict_session(m, s) ==
    [m EXCEPT !.sessions = @ \ {s},
              !.message_buffers = DictDel(@, s),
              !.pending_reconnect = DictDel(@, s)]

RECURSIVE SetToSeq(_)
SetToSeq(S) ==
    IF S = {} THEN <<>>
    ELSE LET x == CHOOSE y \in S : TRUE IN <<x>> \o SetToSeq(S \ {x})

\* --------------------------------------------------------- task bookkeeping
NoResume == [sid |-> "none", last_seq |-> 0, top |-> 0, outcome |-> "none"]

Goto(w, p) == pc' = [pc EXCEPT ![w] = p]

\* a send_message call of task w: suspend in sendpc while the write is
\* pending, or, with no socket attached, run on (Cont) to the next await
SendAt(w, m, s, msg, sendpc, Cont(_), contpc) ==
    LET r == send_message(m, s, msg)
    IN  IF r.awaited
        THEN /\ Commit(r.m)
             /\ Goto(w, sendpc)
             /\ fail' = [fail EXCEPT ![w] = r.failed]
        ELSE /\ Commit(Cont(r.m))
             /\ Goto(w, contpc)
             /\ fail' = [fail EXCEPT ![w] = FALSE]

Same(m) == m

\* socket w is the next one the server accepts
Accepts(w) ==
    /\ pc[w] = "idle"
    /\ wsOpen[w]
    /\ \A v \in WebSockets : v < w => pc[v] # "idle"

\* the connection task writes a handler's returned message through the
\* manager's send path, then waits for the next frame
Respond(w, m, msg) ==
    SendAt(w, m, tsid[w], msg, "resp_send", Same, "recv")

\* a new operation is accepted while the session's counter is below MaxSeq
SeqBudget(s) == s \in DOMAIN context => context[s].server_seq < MaxSeq

Init ==
    /\ sessions = {}
    /\ context = EmptyDict
    /\ connections = EmptyDict
    /\ pending_reconnect = EmptyDict
    /\ message_buffers = EmptyDict
    /\ delivered = <<>>
    /\ db_sessions = {}
    /\ wsOpen = [w \in WebSockets |-> TRUE]
    /\ now = 0
    /\ pc = [w \in WebSockets |-> "idle"]
    /\ tsid = [w \in WebSockets |-> "none"]
    /\ fail = [w \in WebSockets |-> FALSE]
    /\ missed = [w \in WebSockets |-> <<>>]
    /\ resumeInfo = [w \in WebSockets |-> NoResume]
    /\ sweep_pc = "idle"
    /\ sweep_expired = <<>>
    /\ sweep_due = {}
    /\ active_connections = EmptyDict
    /\ session_data = EmptyDict
    /\ cpc = [e \in Endpoints |-> "idle"]
    /\ csid = [e \in Endpoints |-> "none"]

\* ------------------------------------------------------------- environment
Tick ==
    /\ now + TimeStep <= MaxTime
    /\ now' = now + TimeStep
    /\ UNCHANGED <<mgrvars, db_sessions, wsOpen, taskvars, sweepvars>>
    /\ UNCHANGED convvars

\* the peer or the network closes the transport of a connected socket
ClientClose(w) ==
    /\ wsOpen[w]
    /\ pc[w] \notin {"idle", "done"}
    /\ wsOpen' = [wsOpen EXCEPT ![w] = FALSE]
    /\ UNCHANGED <<mgrvars, db_sessions, now, taskvars, sweepvars>>
    /\ UNCHANGED convvars

\* ------------------------------------------------- handle_session_start
StartSession(w) ==
    /\ Accepts(w)
    /\ SessionIds \ db_sessions # {}
    /\ \A v \in WebSockets : pc[v] \notin {"ss_quota", "ss_create"}
    /\ Goto(w, "ss_quota")
    /\ UNCHANGED <<mgrvars, db_sessions, wsOpen, now, tsid, fail, missed,
                   resumeInfo, sweepvars>>
    /\ UNCHANGED convvars

\* PLAN_LIMITS of the free plan, and the sessions per hour of
\* _check_rate_limit
monthly_sessions == 10
monthly_minutes == 60
rate_limit == 10

\* QuotaService.check_session_quota, its 'allowed' result, for a user on
\* the free plan with the given usage and requests in the current hour
check_session_quota(sessions_used, minutes_used, requests) ==
    IF sessions_used >= monthly_sessions THEN FALSE
    ELSE IF minutes_used >= monthly_minutes THEN FALSE
    ELSE requests < rate_limit

\* a start that registers the session before it looks at the quota
StartQuotaAfterCreate(w) ==
    /\ pc[w] = "ss_quota"
    /\ \E sessions_used \in {0, monthly_sessions},
          minutes_used \in {0, monthly_minutes},
          requests \in {0, rate_limit} :
          IF check_session_quota(sessions_used, minutes_used, requests)
          THEN /\ Goto(w, "ss_create")
               /\ UNCHANGED <<mgrvars, db_sessions>>
          ELSE /\ Goto(w, "done")
               /\ \E s \in SessionIds \ db_sessions :
                     /\ db_sessions' = db_sessions \cup {s}
                     /\ Commit(register_session(Mgr, w, s))
    /\ UNCHANGED <<wsOpen, now, tsid, fail, missed, resumeInfo, sweepvars>>
    /\ UNCHANGED convvars

\* check_session_quota returns; not allowed raises ValueError, allowed
\* goes on to create_session and its storage insert
StartQuota(w) ==
    /\ pc[w] = "ss_quota"
    /\ \E sessions_used \in {0, monthly_sessions},
          minutes_used \in {0, monthly_minutes},
          requests \in {0, rate_limit} :
          Goto(w, IF check_session_quota(sessions_used, minutes_used, requests)
                  THEN "ss_create" ELSE "done")
    /\ UNCHANGED <<mgrvars, db_sessions, wsOpen, now, tsid, fail, missed,
                   resumeInfo, sweepvars>>
    /\ UNCHANGED convvars

\* db_service.create_session returns a row, or raises
StartCreate(w) ==
    /\ pc[w] = "ss_create"
    /\ \/ /\ Goto(w, "done")
          /\ UNCHANGED <<mgrvars, db_sessions, tsid>>
       \/ \E s \in SessionIds \ db_sessions :
             /\ db_sessions' = db_sessions \cup {s}
             /\ Commit(register_session(Mgr, w, s))
             /\ tsid' = [tsid EXCEPT ![w] = s]
             /\ Goto(w, "ss_init")
    /\ UNCHANGED <<wsOpen, now, fail, missed, resumeInfo, sweepvars>>
    /\ UNCHANGED convvars

\* speech_service.initialize_session and conversation.initialize_session
\* have returned (two awaits with no code between them): the
\* session.started message
StartInit(w) ==
    /\ pc[w] = "ss_init"
    /\ LET s == tsid[w]
           m1 == increment_server_seq(Mgr, s)
           msg == ServerMessage("session.started", m1.context[s].server_seq)
       IN  SendAt(w, m1, s, msg, "ss_send_started", Same, "ss_greet")
    /\ UNCHANGED <<db_sessions, wsOpen, now, tsid, missed, resumeInfo,
                   sweepvars>>
    /\ UNCHANGED convvars

StartSendStarted(w) ==
    /\ pc[w] = "ss_send_started"
    /\ Commit(send_message_done(Mgr, tsid[w], fail[w]))
    /\ fail' = [fail EXCEPT ![w] = FALSE]
    /\ Goto(w, "ss_greet")
    /\ UNCHANGED <<db_sessions, wsOpen, now, tsid, missed, resumeInfo,
                   sweepvars>>
    /\ UNCHANGED convvars

\* generate_greeting returns: the greeting, then update_state(READY)
StartGreet(w) ==
    /\ pc[w] = "ss_greet"
    /\ LET s == tsid[w]
           m1 == increment_server_seq(Mgr, s)
           msg == ServerMessage("ai.reply", m1.context[s].server_seq)
       IN  SendAt(w, m1, s, msg, "ss_send_greeting",
                  LAMBDA m : update_state(m, s, READY), "recv")
    /\ UNCHANGED <<db_sessions, wsOpen, now, tsid, missed, resumeInfo,
                   sweepvars>>
    /\ UNCHANGED convvars

StartSendGreeting(w) ==
    /\ pc[w] = "ss_send_greeting"
    /\ Commit(update_state(send_message_done(Mgr, tsid[w], fail[w]),
                           tsid[w], READY))
    /\ fail' = [fail EXCEPT ![w] = FALSE]
    /\ Goto(w, "recv")
    /\ UNCHANGED <<db_sessions, wsOpen, now, tsid, missed, resumeInfo,
                   sweepvars>>
    /\ UNCHANGED convvars

\* ------------------------------------------------- handle_session_resume
\* the session.resumed confirmation, through send_message
ResumeConfirm(w, m, s) ==
    LET m1 == increment_server_seq(m, s)
        msg == ServerMessage("session.resumed", m1.context[s].server_seq)
    IN  SendAt(w, m1, s, msg, "rs_send_resumed", Same, "recv")

\* resume_session up to its first await.  An id missing from the table is
\* looked up in storage; an elapsed window returns None at once; otherwise
\* the socket is attached and the replay writes its first message.
ResumeSession(w, s, last_seq) ==
    /\ Accepts(w)
    /\ IF s \notin sessions
       THEN /\ Goto(w, "rs_db")
            /\ resumeInfo' = [resumeInfo EXCEPT ![w] =
                 [sid |-> s, last_seq |-> 0, top |-> 0, outcome |-> "lookup"]]
            /\ UNCHANGED <<mgrvars, tsid, fail, missed>>
       ELSE IF WindowExpired(pending_reconnect, s, now)
       THEN /\ Goto(w, "done")
            /\ resumeInfo' = [resumeInfo EXCEPT ![w] =
                 [sid |-> s, last_seq |-> 0, top |-> 0, outcome |-> "denied"]]
            /\ UNCHANGED <<mgrvars, tsid, fail, missed>>
       ELSE LET m1 == resume_attach(Mgr, w, s)
                todo == IF s \in DOMAIN m1.message_buffers
                        THEN MissedMessages(m1.message_buffers[s], last_seq)
                        ELSE <<>>
            IN  /\ tsid' = [tsid EXCEPT ![w] = s]
                /\ resumeInfo' = [resumeInfo EXCEPT ![w] =
                     [sid |-> s, last_seq |-> last_seq,
                      top |-> context[s].server_seq, outcome |-> "attached"]]
                /\ IF todo # <<>>
                   THEN /\ Commit(replay_write(m1, w, s, Head(todo)))
                        /\ fail' = [fail EXCEPT ![w] = ~wsOpen[w]]
                        /\ missed' = [missed EXCEPT ![w] = Tail(todo)]
                        /\ Goto(w, "rs_replay")
                   ELSE /\ ResumeConfirm(w, m1, s)
                        /\ UNCHANGED missed
    /\ UNCHANGED <<db_sessions, wsOpen, now, sweepvars>>
    /\ UNCHANGED convvars

\* a lookup that rebuilds the record from the storage row
ResumeLookupRestores(w) ==
    /\ pc[w] = "rs_db"
    /\ Goto(w, "done")
    /\ resumeInfo' = [resumeInfo EXCEPT ![w].outcome = "denied"]
    /\ Commit(IF resumeInfo[w].sid \in db_sessions
              THEN register_session(Mgr, w, resumeInfo[w].sid)
              ELSE Mgr)
    /\ UNCHANGED <<db_sessions, wsOpen, now, tsid, fail, missed, sweepvars>>
    /\ UNCHANGED convvars

\* db_service.get_session returns; with or without a row the result is None
ResumeLookup(w) ==
    /\ pc[w] = "rs_db"
    /\ Goto(w, "done")
    /\ resumeInfo' = [resumeInfo EXCEPT ![w].outcome = "denied"]
    /\ UNCHANGED <<mgrvars, db_sessions, wsOpen, now, tsid, fail, missed,
                   sweepvars>>
    /\ UNCHANGED convvars

\* _replay_messages: a write returned or raised; break on the exception,
\* else write the next missed message, else go on to the confirmation
ResumeReplay(w) ==
    /\ pc[w] = "rs_replay"
    /\ IF ~fail[w] /\ missed[w] # <<>>
       THEN /\ Commit(replay_write(Mgr, w, tsid[w], Head(missed[w])))
            /\ fail' = [fail EXCEPT ![w] = ~wsOpen[w]]
            /\ missed' = [missed EXCEPT ![w] = Tail(@)]
            /\ UNCHANGED pc
            /\ UNCHANGED resumeInfo
       ELSE /\ ResumeConfirm(w, Mgr, tsid[w])
            /\ missed' = [missed EXCEPT ![w] = <<>>]
            /\ resumeInfo' = [resumeInfo EXCEPT ![w] =
                 IF pc'[w] = "recv" THEN NoResume ELSE @]
    /\ UNCHANGED <<db_sessions, wsOpen, now, tsid, sweepvars>>
    /\ UNCHANGED convvars

ResumeSendResumed(w) ==
    /\ pc[w] = "rs_send_resumed"
    /\ Commit(send_message_done(Mgr, tsid[w], fail[w]))
    /\ fail' = [fail EXCEPT ![w] = FALSE]
    /\ resumeInfo' = [resumeInfo EXCEPT ![w] = NoResume]
    /\ Goto(w, "recv")
    /\ UNCHANGED <<db_sessions, wsOpen, now, tsid, missed, sweepvars>>
    /\ UNCHANGED convvars

\* ------------------------------------------------------ the connection task
\* the receive raises on a closed transport: the task reports the
\* disconnect to the manager and ends
ConnectionClosed(w) ==
    /\ pc[w] = "recv"
    /\ ~wsOpen[w]
    /\ Commit(handle_disconnect(Mgr, tsid[w]))
    /\ Goto(w, "done")
    /\ UNCHANGED <<db_sessions, wsOpen, now, tsid, fail, missed, resumeInfo,
                   sweepvars>>
    /\ UNCHANGED convvars

\* the write of a returned message has completed
ResponseSent(w) ==
    /\ pc[w] = "resp_send"
    /\ Commit(send_message_done(Mgr, tsid[w], fail[w]))
    /\ fail' = [fail EXCEPT ![w] = FALSE]
    /\ Goto(w, "recv")
    /\ UNCHANGED <<db_sessions, wsOpen, now, tsid, missed, resumeInfo,
                   sweepvars>>
    /\ UNCHANGED convvars

\* a text frame has arrived on an open socket
CanReceive(w) ==
    /\ pc[w] = "recv"
    /\ wsOpen[w]

\* handle_message before the routing: the lookup and the sequence tracking
Tracked(m, s, client_seq) ==
    [m EXCEPT !.context[s].client_seq = client_seq]

ClientSeqs == {1}

\* handle_message for an id that is not in the table
SessionNotFound(w) ==
    /\ CanReceive(w)
    /\ tsid[w] \notin sessions
    /\ Respond(w, Mgr, ServerMessage("session.error", 0))
    /\ UNCHANGED <<db_sessions, wsOpen, now, tsid, missed, resumeInfo,
                   sweepvars>>
    /\ UNCHANGED convvars

\* _handle_ping and _handle_get_status
HandlePing(w, type) ==
    /\ CanReceive(w)
    /\ tsid[w] \in sessions
    /\ SeqBudget(tsid[w])
    /\ \E cs \in ClientSeqs :
          LET s == tsid[w]
              m1 == increment_server_seq(Tracked(Mgr, s, cs), s)
          IN  Respond(w, m1, ServerMessage(type, m1.context[s].server_seq))
    /\ UNCHANGED <<db_sessions, wsOpen, now, tsid, missed, resumeInfo,
                   sweepvars>>
    /\ UNCHANGED convvars

\* _handle_audio_config: a payload AudioConfig rejects is answered at once,
\* a valid one is passed to the speech service
HandleAudioConfig(w) ==
    /\ CanReceive(w)
    /\ tsid[w] \in sessions
    /\ SeqBudget(tsid[w])
    /\ \E cs \in ClientSeqs, valid \in BOOLEAN :
          LET s == tsid[w]
              m0 == Tracked(Mgr, s, cs)
              m1 == increment_server_seq(m0, s)
          IN  IF valid
              THEN /\ Commit(m0)
                   /\ Goto(w, "cfg_wait")
                   /\ UNCHANGED fail
              ELSE Respond(w, m1, ServerMessage("session.error",
                                                m1.context[s].server_seq))
    /\ UNCHANGED <<db_sessions, wsOpen, now, tsid, missed, resumeInfo,
                   sweepvars>>
    /\ UNCHANGED convvars

\* speech_service.configure_audio returns or raises
AudioConfigDone(w) ==
    /\ pc[w] = "cfg_wait"
    /\ \E ok \in BOOLEAN :
          LET s == tsid[w]
              m1 == increment_server_seq(Mgr, s)
          IN  IF ok
              THEN /\ Goto(w, "recv")
                   /\ UNCHANGED <<mgrvars, fail>>
              ELSE Respond(w, m1, ServerMessage("session.error",
                                                m1.context[s].server_seq))
    /\ UNCHANGED <<db_sessions, wsOpen, now, tsid, missed, resumeInfo,
                   sweepvars>>
    /\ UNCHANGED convvars

\* ------------------------------------------------- _handle_audio_commit
HandleAudioCommit(w) ==
    /\ CanReceive(w)
    /\ tsid[w] \in sessions
    /\ SeqBudget(tsid[w])
    /\ \E cs \in ClientSeqs :
          Commit(update_state(Tracked(Mgr, tsid[w], cs), tsid[w], PROCESSING))
    /\ Goto(w, "ac_final")
    /\ UNCHANGED <<db_sessions, wsOpen, now, tsid, fail, missed, resumeInfo,
                   sweepvars>>
    /\ UNCHANGED convvars

\* finalize_utterance returns no text: the handler returns None
AudioCommitNoText(w) ==
    /\ pc[w] = "ac_final"
    /\ Goto(w, "recv")
    /\ UNCHANGED <<mgrvars, db_sessions, wsOpen, now, tsid, fail, missed,
                   resumeInfo, sweepvars>>
    /\ UNCHANGED convvars

\* finalize_utterance raises: nothing in _handle_audio_commit or
\* handle_message catches it, so the handler ends there with the session
\* left in PROCESSING and nothing sent
AudioCommitFinalizeFailed(w) ==
    /\ pc[w] = "ac_final"
    /\ Goto(w, "done")
    /\ UNCHANGED <<mgrvars, db_sessions, wsOpen, now, tsid, fail, missed,
                   resumeInfo, sweepvars>>
    /\ UNCHANGED convvars

\* finalize_utterance returns a text: the argument list of the analysis
\* call is built, which awaits get_audio_features
AudioCommitText(w) ==
    /\ pc[w] = "ac_final"
    /\ Goto(w, "ac_features")
    /\ UNCHANGED <<mgrvars, db_sessions, wsOpen, now, tsid, fail, missed,
                   resumeInfo, sweepvars>>
    /\ UNCHANGED convvars

\* get_audio_features raises: the await is an argument of the call inside
\* create_task(...) and runs in the handler itself, so the exception
\* leaves the handler before the analysis task exists
AudioCommitFeaturesFailed(w) ==
    /\ pc[w] = "ac_features"
    /\ Goto(w, "done")
    /\ UNCHANGED <<mgrvars, db_sessions, wsOpen, now, tsid, fail, missed,
                   resumeInfo, sweepvars>>
    /\ UNCHANGED convvars

\* get_audio_features returns: the analysis task is created (it runs on
\* its own and touches nothing of the manager), the state is set again and
\* the typing indicator is sent
AudioCommitTyping(w) ==
    /\ pc[w] = "ac_features"
    /\ LET s == tsid[w]
           m1 == increment_server_seq(update_state(Mgr, s, PROCESSING), s)
           msg == ServerMessage("ai.typing", m1.context[s].server_seq)
       IN  SendAt(w, m1, s, msg, "ac_send_typing", Same, "ac_gen")
    /\ UNCHANGED <<db_sessions, wsOpen, now, tsid, missed, resumeInfo,
                   sweepvars>>
    /\ UNCHANGED convvars

AudioCommitSentTyping(w) ==
    /\ pc[w] = "ac_send_typing"
    /\ Commit(send_message_done(Mgr, tsid[w], fail[w]))
    /\ fail' = [fail EXCEPT ![w] = FALSE]
    /\ Goto(w, "ac_gen")
    /\ UNCHANGED <<db_sessions, wsOpen, now, tsid, missed, resumeInfo,
                   sweepvars>>
    /\ UNCHANGED convvars

\* generate_response returns: the turn is counted and the reply sent
AudioCommitReply(w) ==
    /\ pc[w] = "ac_gen"
    /\ LET s == tsid[w]
           m1 == increment_server_seq(increment_turn(Mgr, s), s)
           msg == ServerMessage("ai.reply", m1.context[s].server_seq)
       IN  SendAt(w, m1, s, msg, "ac_send_reply",
                  LAMBDA m : update_state(m, s, READY), "recv")
    /\ UNCHANGED <<db_sessions, wsOpen, now, tsid, missed, resumeInfo,
                   sweepvars>>
    /\ UNCHANGED convvars

\* generate_response raises inside _handle_audio_commit: the exception
\* leaves the handler before increment_turn
AudioCommitGenerateFailed(w) ==
    /\ pc[w] = "ac_gen"
    /\ Goto(w, "done")
    /\ UNCHANGED <<mgrvars, db_sessions, wsOpen, now, tsid, fail, missed,
                   resumeInfo, sweepvars>>
    /\ UNCHANGED convvars

AudioCommitSentReply(w) ==
    /\ pc[w] = "ac_send_reply"
    /\ Commit(update_state(send_message_done(Mgr, tsid[w], fail[w]),
                           tsid[w], READY))
    /\ fail' = [fail EXCEPT ![w] = FALSE]
    /\ Goto(w, "recv")
    /\ UNCHANGED <<db_sessions, wsOpen, now, tsid, missed, resumeInfo,
                   sweepvars>>
    /\ UNCHANGED convvars

\* --------------------------------------------------- _handle_text_input
HandleTextInput(w) ==
    /\ CanReceive(w)
    /\ tsid[w] \in sessions
    /\ SeqBudget(tsid[w])
    /\ \E cs \in ClientSeqs, has_text \in BOOLEAN :
          LET s == tsid[w]
              m0 == Tracked(Mgr, s, cs)
          IN  IF has_text
              THEN /\ Commit(update_state(m0, s, PROCESSING))
                   /\ Goto(w, "ti_gen")
              ELSE /\ Commit(m0)
                   /\ UNCHANGED pc
    /\ UNCHANGED <<db_sessions, wsOpen, now, tsid, fail, missed, resumeInfo,
                   sweepvars>>
    /\ UNCHANGED convvars

\* generate_response returns: the turn is counted and the reply returned
TextInputReply(w) ==
    /\ pc[w] = "ti_gen"
    /\ LET s == tsid[w]
           m1 == increment_server_seq(increment_turn(Mgr, s), s)
       IN  Respond(w, m1, ServerMessage("ai.reply", m1.context[s].server_seq))
    /\ UNCHANGED <<db_sessions, wsOpen, now, tsid, missed, resumeInfo,
                   sweepvars>>
    /\ UNCHANGED convvars

\* generate_response raises inside _handle_text_input: the exception
\* leaves the handler before increment_turn
TextInputGenerateFailed(w) ==
    /\ pc[w] = "ti_gen"
    /\ Goto(w, "done")
    /\ UNCHANGED <<mgrvars, db_sessions, wsOpen, now, tsid, fail, missed,
                   resumeInfo, sweepvars>>
    /\ UNCHANGED convvars

\* -------------------------------------------------- _handle_session_end
\* update_state(ANALYZING), then end_session up to its storage write; for
\* an id no longer in the table end_session returns at once
HandleSessionEnd(w) ==
    /\ CanReceive(w)
    /\ tsid[w] \in sessions
    /\ SeqBudget(tsid[w])
    /\ \E cs \in ClientSeqs :
          LET s == tsid[w]
              m1 == update_state(Tracked(Mgr, s, cs), s, ANALYZING)
          IN  Commit(end_session_begin(m1, s))
    /\ Goto(w, "se_db")
    /\ UNCHANGED <<db_sessions, wsOpen, now, tsid, fail, missed, resumeInfo,
                   sweepvars>>
    /\ UNCHANGED convvars

\* update_session returns: end_session releases the socket and the marker
SessionEndStored(w) ==
    /\ pc[w] = "se_db"
    /\ Commit(end_session_finish(Mgr, tsid[w]))
    /\ Goto(w, "se_analysis")
    /\ UNCHANGED <<db_sessions, wsOpen, now, tsid, fail, missed, resumeInfo,
                   sweepvars>>
    /\ UNCHANGED convvars

\* update_session raises: nothing in end_session, _handle_session_end or
\* handle_message catches it, so the handler ends there with the session
\* left in ANALYZING
SessionEndStorageFailed(w) ==
    /\ pc[w] = "se_db"
    /\ Goto(w, "done")
    /\ UNCHANGED <<mgrvars, db_sessions, wsOpen, now, tsid, fail, missed,
                   resumeInfo, sweepvars>>
    /\ UNCHANGED convvars

\* the session.ended message, returned to the connection task
SessionEndReturn(w, m) ==
    LET s == tsid[w]
        m1 == increment_server_seq(m, s)
    IN  Respond(w, m1, ServerMessage("session.ended", m1.context[s].server_seq))

\* generate_fast_summary and queue_deep_analysis have returned (two awaits
\* with no code between them): the summary is sent
SessionEndQueued(w) ==
    /\ pc[w] = "se_analysis"
    /\ LET s == tsid[w]
           m1 == increment_server_seq(Mgr, s)
           r == send_message(m1, s, ServerMessage("session.summary_ready",
                                                  m1.context[s].server_seq))
       IN  IF r.awaited
           THEN /\ Commit(r.m)
                /\ Goto(w, "se_send_summary")
                /\ fail' = [fail EXCEPT ![w] = r.failed]
           ELSE SessionEndReturn(w, r.m)
    /\ UNCHANGED <<db_sessions, wsOpen, now, tsid, missed, resumeInfo,
                   sweepvars>>
    /\ UNCHANGED convvars

SessionEndSentSummary(w) ==
    /\ pc[w] = "se_send_summary"
    /\ SessionEndReturn(w, send_message_done(Mgr, tsid[w], fail[w]))
    /\ UNCHANGED <<db_sessions, wsOpen, now, tsid, missed, resumeInfo,
                   sweepvars>>
    /\ UNCHANGED convvars

\* --------------------------------------------------- handle_audio_chunk
\* len(audio_data) // 32 for the one chunk size of the model
ChunkMs == 100

HandleAudioChunk(w) ==
    /\ CanReceive(w)
    /\ tsid[w] \in sessions
    /\ context[tsid[w]].audio_chunks_received < MaxChunks
    /\ SeqBudget(tsid[w])
    /\ Commit(record_audio_chunk(update_state(Mgr, tsid[w], LISTENING),
                                 tsid[w], ChunkMs))
    /\ Goto(w, "ch_stt")
    /\ UNCHANGED <<db_sessions, wsOpen, now, tsid, fail, missed, resumeInfo,
                   sweepvars>>
    /\ UNCHANGED convvars

\* process_audio_chunk returns nothing, a partial or a final transcript
AudioChunkResult(w) ==
    /\ pc[w] = "ch_stt"
    /\ \E result \in {"none", "stt.partial", "stt.final"} :
          LET s == tsid[w]
              m1 == increment_server_seq(Mgr, s)
          IN  IF result = "none"
              THEN /\ Goto(w, "recv")
                   /\ UNCHANGED <<mgrvars, fail>>
              ELSE SendAt(w, m1, s,
                          ServerMessage(result, m1.context[s].server_seq),
                          "ch_send", Same, "recv")
    /\ UNCHANGED <<db_sessions, wsOpen, now, tsid, missed, resumeInfo,
                   sweepvars>>
    /\ UNCHANGED convvars

AudioChunkSent(w) ==
    /\ pc[w] = "ch_send"
    /\ Commit(send_message_done(Mgr, tsid[w], fail[w]))
    /\ fail' = [fail EXCEPT ![w] = FALSE]
    /\ Goto(w, "recv")
    /\ UNCHANGED <<db_sessions, wsOpen, now, tsid, missed, resumeInfo,
                   sweepvars>>
    /\ UNCHANGED convvars

\* --------------------------------------------- cleanup_expired_sessions
\* the loop over the expired ids from the state m: an id still in the table
\* is ended first, which suspends in the storage write; other ids are
\* popped at once
RECURSIVE SweepLoop(_, _)
SweepLoop(m, ids) ==
    IF ids = <<>>
    THEN [m |-> m, ids |-> <<>>, pc |-> "idle"]
    ELSE IF Head(ids) \in m.sessions
    THEN [m |-> end_session_begin(m, Head(ids)), ids |-> ids, pc |-> "end_db"]
    ELSE SweepLoop(evict_session(m, Head(ids)), Tail(ids))

SweepCommit(r) ==
    /\ Commit(r.m)
    /\ sweep_pc' = r.pc
    /\ sweep_expired' = r.ids

\* the sessions a pass starting now is due to end: PAUSED, window elapsed
DueNow ==
    {s \in sessions : /\ context[s].state = PAUSED
                      /\ s \in DOMAIN pending_reconnect
                      /\ now > pending_reconnect[s]}

\* a pass starts (a pass with no marker in the table does nothing)
SweepStart ==
    /\ sweep_pc = "idle"
    /\ DOMAIN pending_reconnect # {}
    /\ SweepCommit(SweepLoop(Mgr, SetToSeq(ExpiredIds(pending_reconnect, now))))
    /\ sweep_due' = sweep_due \cup DueNow
    /\ UNCHANGED <<db_sessions, wsOpen, now, taskvars>>
    /\ UNCHANGED convvars

\* update_session returns inside end_session: the session is completed and
\* popped, and the loop goes on
SweepEnded ==
    /\ sweep_pc = "end_db"
    /\ LET s == Head(sweep_expired)
           m1 == evict_session(end_session_finish(Mgr, s), s)
       IN  SweepCommit(SweepLoop(m1, Tail(sweep_expired)))
    /\ UNCHANGED <<db_sessions, wsOpen, now, taskvars, sweep_due>>
    /\ UNCHANGED convvars

\* update_session raises inside end_session: the exception leaves
\* cleanup_expired_sessions, the pass is over and the pops have not run
SweepStorageFailed ==
    /\ sweep_pc = "end_db"
    /\ sweep_pc' = "idle"
    /\ sweep_expired' = <<>>
    /\ UNCHANGED <<mgrvars, db_sessions, wsOpen, now, taskvars, sweep_due>>
    /\ UNCHANGED convvars

\* ------------------------------------------------------------ specification
Next ==
    \/ Tick
    \/ SweepStart
    \/ SweepEnded
    \/ SweepStorageFailed
    \/ \E w \in WebSockets :
          \/ ClientClose(w)
          \/ StartSession(w)
          \/ StartQuota(w)
          \/ StartCreate(w)
          \/ StartInit(w)
          \/ StartSendStarted(w)
          \/ StartGreet(w)
          \/ StartSendGreeting(w)
          \/ \E s \in SessionIds, last_seq \in 0 .. MaxSeq :
                ResumeSession(w, s, last_seq)
          \/ ResumeLookup(w)
          \/ ResumeReplay(w)
          \/ ResumeSendResumed(w)
          \/ ConnectionClosed(w)
          \/ ResponseSent(w)
          \/ SessionNotFound(w)
          \/ \E type \in {"pong", "status"} : HandlePing(w, type)
          \/ HandleAudioConfig(w)
          \/ AudioConfigDone(w)
          \/ HandleAudioCommit(w)
          \/ AudioCommitNoText(w)
          \/ AudioCommitFinalizeFailed(w)
          \/ AudioCommitText(w)
          \/ AudioCommitFeaturesFailed(w)
          \/ AudioCommitTyping(w)
          \/ AudioCommitSentTyping(w)
          \/ AudioCommitReply(w)
          \/ AudioCommitGenerateFailed(w)
          \/ AudioCommitSentReply(w)
          \/ HandleTextInput(w)
          \/ TextInputReply(w)
          \/ TextInputGenerateFailed(w)
          \/ HandleSessionEnd(w)
          \/ SessionEndStored(w)
          \/ SessionEndStorageFailed(w)
          \/ SessionEndQueued(w)
          \/ SessionEndSentSummary(w)
          \/ HandleAudioChunk(w)
          \/ AudioChunkResult(w)
          \/ AudioChunkSent(w)

Spec == Init /\ [][Next]_vars

\* the cleanup task keeps running: a pass that can start does start, a
\* storage write of the pass that keeps being asked for does return in the
\* end, and the clock goes on up to MaxTime
FairSpec ==
    /\ Spec
    /\ WF_vars(Tick)
    /\ WF_vars(SweepStart)
    /\ SF_vars(SweepEnded)

\* ------------------------------------- the /ws/conversation/{id} endpoint
\* ConnectionManager.disconnect on one of its two tables: drop the key if
\* it is there
disconnect(d, session_id) ==
    IF session_id \in DOMAIN d THEN DictDel(d, session_id) ELSE d

\* the finally clause of conversation_websocket, after which the coroutine
\* has returned
Finally(e) ==
    /\ active_connections' = disconnect(active_connections, csid[e])
    /\ session_data' = disconnect(session_data, csid[e])
    /\ cpc' = [cpc EXCEPT ![e] = "returned"]
    /\ UNCHANGED csid

\* an exit of conversation_websocket that is outside its try statement
ReturnBeforeTry(e) ==
    /\ cpc' = [cpc EXCEPT ![e] = "returned"]
    /\ UNCHANGED <<active_connections, session_data, csid>>

ConvGoto(e, p) ==
    /\ cpc' = [cpc EXCEPT ![e] = p]
    /\ UNCHANGED <<active_connections, session_data, csid>>

\* ConnectionManager.connect once websocket.accept() has returned: both
\* tables get the key, an earlier entry of the same id is overwritten
connect(e, session_id) ==
    /\ cpc[e] = "idle"
    /\ active_connections' = DictSet(active_connections, session_id, e)
    /\ session_data' = DictSet(session_data, session_id, e)
    /\ cpc' = [cpc EXCEPT ![e] = "get_session"]
    /\ csid' = [csid EXCEPT ![e] = session_id]
    /\ UNCHANGED corevars

\* websocket.accept() raises: nothing was registered
ConnectAcceptFailed(e, session_id) ==
    /\ cpc[e] = "idle"
    /\ cpc' = [cpc EXCEPT ![e] = "returned"]
    /\ csid' = [csid EXCEPT ![e] = session_id]
    /\ UNCHANGED <<active_connections, session_data, corevars>>

\* db_service.get_session returned a row: the welcome is sent and the
\* greeting asked for
GetSessionFound(e) ==
    /\ cpc[e] = "get_session"
    /\ ConvGoto(e, "greeting")
    /\ UNCHANGED corevars

\* db_service.get_session returned nothing: error frame, close, return
GetSessionNotFound(e) ==
    /\ cpc[e] = "get_session"
    /\ ReturnBeforeTry(e)
    /\ UNCHANGED corevars

\* db_service.get_session raised
GetSessionFailed(e) ==
    /\ cpc[e] = "get_session"
    /\ ReturnBeforeTry(e)
    /\ UNCHANGED corevars

\* welcome and greeting are out: the initial turn is saved in the dict
\* get_session_data returns, which is {} (a KeyError) when another
\* coroutine of the same id has already removed the entry
Greeted(e) ==
    /\ cpc[e] = "greeting"
    /\ IF csid[e] \in DOMAIN session_data
          THEN ConvGoto(e, "receive")
          ELSE ReturnBeforeTry(e)
    /\ UNCHANGED corevars

\* a send or generate_greeting raised before the try statement
GreetingFailed(e) ==
    /\ cpc[e] = "greeting"
    /\ ReturnBeforeTry(e)
    /\ UNCHANGED corevars

\* receive_json returned a message of the given type; process_user_message
\* starts by reading the entry of the id, a KeyError when it is gone
ReceiveMessage(e, message_type) ==
    /\ cpc[e] = "receive"
    /\ CASE message_type \in {"audio_chunk", "text_input"} ->
              IF csid[e] \in DOMAIN session_data
                  THEN ConvGoto(e, "process")
                  ELSE Finally(e)
         [] message_type = "end_session" -> ConvGoto(e, "end_conversation")
         [] message_type = "get_status" -> ConvGoto(e, "status")
    /\ UNCHANGED corevars

\* receive_json raised WebSocketDisconnect: the except clause ends the
\* conversation
ReceiveDisconnect(e) ==
    /\ cpc[e] = "receive"
    /\ ConvGoto(e, "end_conversation")
    /\ UNCHANGED corevars

\* receive_json raised something else, e.g. on a frame that is not JSON
ReceiveFailed(e) ==
    /\ cpc[e] = "receive"
    /\ Finally(e)
    /\ UNCHANGED corevars

\* process_user_message returned, or the status frame was written
HandlerReturned(e) ==
    /\ cpc[e] \in {"process", "status"}
    /\ ConvGoto(e, "receive")
    /\ UNCHANGED corevars

\* an await of the handler raised WebSocketDisconnect
HandlerDisconnect(e) ==
    /\ cpc[e] \in {"process", "status"}
    /\ ConvGoto(e, "end_conversation")
    /\ UNCHANGED corevars

\* an await of the handler raised another exception
HandlerFailed(e) ==
    /\ cpc[e] \in {"process", "status"}
    /\ Finally(e)
    /\ UNCHANGED corevars

\* end_conversation returned or raised, after an end_session message or in
\* the except clause: either way the finally clause runs next
EndConversationDone(e) ==
    /\ cpc[e] = "end_conversation"
    /\ Finally(e)
    /\ UNCHANGED corevars

ConvNext ==
    \E e \in Endpoints :
        \/ \E session_id \in ConversationIds : connect(e, session_id)
        \/ \E session_id \in ConversationIds :
              ConnectAcceptFailed(e, session_id)
        \/ GetSessionFound(e)
        \/ GetSessionNotFound(e)
        \/ GetSessionFailed(e)
        \/ Greeted(e)
        \/ GreetingFailed(e)
        \/ \E message_type \in
                  {"audio_chunk", "text_input", "end_session", "get_status"} :
              ReceiveMessage(e, message_type)
        \/ ReceiveDisconnect(e)
        \/ ReceiveFailed(e)
        \/ HandlerReturned(e)
        \/ HandlerDisconnect(e)
        \/ HandlerFailed(e)
        \/ EndConversationDone(e)

ConvSpec == Init /\ [][ConvNext]_vars

\* ================================================================== claims
\* the awaits inside the audio-commit, text-input and session-end handlers
\* (end_session included) and inside a resume
SuspendedPcs ==
    {"rs_replay", "rs_send_resumed", "ac_final", "ac_features",
     "ac_send_typing", "ac_gen",
     "ac_send_reply", "ti_gen", "se_db", "se_analysis", "se_send_summary"}

\* task w takes no part in the step
Idles(w) ==
    /\ pc'[w] = pc[w]
    /\ missed'[w] = missed[w]
    /\ fail'[w] = fail[w]

\* what the manager holds for session s
SessionData(s) ==
    <<s \in sessions,
      IF s \in DOMAIN context THEN context[s] ELSE "none",
      IF s \in DOMAIN connections THEN connections[s] ELSE "none",
      IF s \in DOMAIN pending_reconnect THEN pending_reconnect[s] ELSE "none",
      IF s \in DOMAIN message_buffers THEN message_buffers[s] ELSE "none">>

\* in this step resume_session attaches socket w to session s
Attaches(w, s) ==
    /\ pc[w] = "idle"
    /\ resumeInfo'[w].sid = s
    /\ resumeInfo'[w].outcome = "attached"

\* in this step socket w asks to resume session s
AsksResume(w, s) ==
    /\ pc[w] = "idle"
    /\ resumeInfo[w].sid = "none"
    /\ resumeInfo'[w].sid = s

\* the reconnection window of s is open / has elapsed
InWindow(s) ==
    /\ s \in DOMAIN pending_reconnect
    /\ now <= pending_reconnect[s]

Elapsed(s) ==
    /\ s \in DOMAIN pending_reconnect
    /\ now > pending_reconnect[s]

\* C1: the seq values of the frames of one session that reach a client,
\* direct sends, returned responses and replays together, never repeat and
\* never go down; stated here of the frames each connection receives, which
\* the claim about the whole session implies.
C1_DeliveredSeqIncreasing ==
    \A i, j \in DOMAIN delivered :
        (/\ i < j
         /\ delivered[i].sid = delivered[j].sid
         /\ delivered[i].ws = delivered[j].ws)
            => delivered[i].msg.seq < delivered[j].msg.seq

\* C2: when a resume with last_seq = k finds fewer than max_buffer_size
\* messages emitted after k, every frame with a new seq that reaches the
\* resuming socket comes after all of k+1 .. top on that socket, and those
\* come in increasing order (top: server_seq when the resume attached).
C2_ReplayBeforeNew ==
    \A w \in WebSockets :
        LET r == resumeInfo[w]
            OnW == {i \in DOMAIN delivered : delivered[i].ws = w}
        IN  (r.outcome = "attached" /\ r.top - r.last_seq < max_buffer_size)
            => /\ \A i \in OnW :
                    delivered[i].msg.seq > r.top
                    => \A q \in (r.last_seq + 1) .. r.top :
                          \E j \in OnW : j < i /\ delivered[j].msg.seq = q
               /\ \A i, j \in OnW :
                    (i < j /\ delivered[j].msg.seq <= r.top)
                    => delivered[i].msg.seq < delivered[j].msg.seq

\* C3: while the session is in a state other than READY or LISTENING, no
\* audio.config, audio.commit or text.input frame is passed on to its
\* handler (it is rejected, so state and turn_count stay as they are).
C3_RejectedOutsideReadyListening ==
    [][\A w \in WebSockets :
         (/\ pc[w] = "recv"
          /\ tsid[w] \in sessions
          /\ context[tsid[w]].state \notin {READY, LISTENING})
         => pc'[w] \notin {"cfg_wait", "ac_final", "ti_gen"}]_vars

\* C4: a disconnect reported for a session that is already PAUSED leaves it
\* PAUSED and leaves the expiry of its window as the first disconnect set it.
C4_DisconnectIdempotent ==
    [][\A w \in WebSockets :
         (/\ pc[w] = "recv"
          /\ pc'[w] = "done"
          /\ tsid[w] \in sessions
          /\ context[tsid[w]].state = PAUSED
          /\ tsid[w] \in DOMAIN pending_reconnect)
         => /\ context'[tsid[w]].state = PAUSED
            /\ tsid[w] \in DOMAIN pending_reconnect'
            /\ pending_reconnect'[tsid[w]] = pending_reconnect[tsid[w]]]_vars

\* C5: once a cleanup pass has run to its end, every session that was
\* PAUSED past its window when the pass started is COMPLETED (or ERROR) and
\* is gone from the session table, the buffers and the markers.
C5_ExpiredSwept ==
    sweep_pc = "idle"
    => \A s \in sweep_due :
          /\ s \notin sessions
          /\ s \notin DOMAIN message_buffers
          /\ s \notin DOMAIN pending_reconnect
          /\ context[s].state \in {COMPLETED, ERROR}

\* C6: a resume asked for after the window of the session has elapsed is
\* denied on the spot: the socket is not attached, nothing is replayed or
\* sent, and the record, the marker and the buffer stay as they are.
C6_LateResumeDenied ==
    [][\A w \in WebSockets, s \in SessionIds :
         (AsksResume(w, s) /\ s \in sessions /\ Elapsed(s))
         => /\ pc'[w] = "done"
            /\ resumeInfo'[w].outcome = "denied"
            /\ tsid'[w] = tsid[w]
            /\ UNCHANGED mgrvars]_vars

C6_Witness ==
    \E w \in WebSockets :
        /\ resumeInfo[w].outcome = "denied"
        /\ resumeInfo[w].sid \in sessions
        /\ Elapsed(resumeInfo[w].sid)
        /\ context[resumeInfo[w].sid].state = PAUSED

\* C7: a session in COMPLETED or ERROR keeps that state in every step.
C7_TerminalStates ==
    [][\A s \in DOMAIN context :
         context[s].state \in {COMPLETED, ERROR}
         => context'[s].state = context[s].state]_vars

\* C8: when a resume attaches a socket to a PAUSED session inside its
\* window, the session is READY, the attached socket is the new one and
\* the marker is gone.
C8_ResumeMakesReady ==
    [][\A w \in WebSockets, s \in SessionIds :
         (Attaches(w, s) /\ context[s].state = PAUSED /\ InWindow(s))
         => /\ context'[s].state = READY
            /\ s \in DOMAIN connections'
            /\ connections'[s] = w
            /\ s \notin DOMAIN pending_reconnect']_vars

\* C9: a resume attaches a socket only to a session that is in the table
\* with a window opened by a disconnect and not yet elapsed.
C9_ResumeOnlyInWindow ==
    [][\A w \in WebSockets, s \in SessionIds :
         Attaches(w, s) => (s \in sessions /\ InWindow(s))]_vars

\* C10: while a task is suspended inside an operation on a session, no
\* step of another task changes what the manager holds for that session.
C10_NoInterleaving ==
    [][/\ \A w \in WebSockets :
            (pc[w] \in SuspendedPcs /\ Idles(w))
            => SessionData(tsid[w])' = SessionData(tsid[w])
       /\ (sweep_pc = "end_db" /\ UNCHANGED <<sweep_pc, sweep_expired>>)
            => SessionData(Head(sweep_expired))'
                 = SessionData(Head(sweep_expired))]_vars

\* no other connection has ever been accepted: task w is the only one that
\* has worked on its session
Alone(w) == \A v \in WebSockets \ {w} : pc[v] = "idle"

\* C11: when generate_response has returned and the reply of an audio-commit
\* or text-input is being sent the session is in AI_SPEAKING, and when the
\* reply of an audio-commit has been sent and the handler returns the
\* session is READY.
C11_TurnStates ==
    [][\A w \in WebSockets :
         (Alone(w) /\ tsid[w] \in sessions)
         => /\ (/\ pc[w] \in {"ac_gen", "ti_gen"}
                /\ pc'[w] \in {"ac_send_reply", "resp_send"})
               => context'[tsid[w]].state = AI_SPEAKING
            /\ (pc[w] = "ac_send_reply" /\ pc'[w] = "recv" /\ ~fail[w])
               => context'[tsid[w]].state = READY]_vars

\* the step in which finalize_utterance or generate_response raises
CollaboratorFails(w) ==
    /\ pc[w] \in {"ac_final", "ac_gen", "ti_gen"}
    /\ pc'[w] = "done"

\* C12: when finalize_utterance or generate_response fails inside an
\* audio-commit or text-input, a session.error message is emitted to the
\* client, turn_count stays as it was and the state is back in READY or
\* LISTENING instead of PROCESSING.
C12_CollaboratorFailureRolledBack ==
    [][\A w \in WebSockets :
         (CollaboratorFails(w) /\ Alone(w) /\ tsid[w] \in sessions)
         => LET s == tsid[w]
            IN  /\ context'[s].state \in {READY, LISTENING}
                /\ context'[s].turn_count = context[s].turn_count
                /\ message_buffers'[s] # message_buffers[s]
                /\ message_buffers'[s][Len(message_buffers'[s])].type
                     = "session.error"]_vars

\* C13: when the session-end handler of a connected client returns, a
\* session.summary_ready and then a session.ended frame have been written
\* to that client's socket and the session is COMPLETED.
C13_SessionEndDelivered ==
    [][\A w \in WebSockets :
         (/\ pc[w] \in {"se_analysis", "se_send_summary"}
          /\ pc'[w] \in {"recv", "resp_send"}
          /\ wsOpen[w]
          /\ Alone(w))
         => /\ \E i, j \in DOMAIN delivered' :
                  /\ i < j
                  /\ delivered'[i].ws = w
                  /\ delivered'[j].ws = w
                  /\ delivered'[i].msg.type = "session.summary_ready"
                  /\ delivered'[j].msg.type = "session.ended"
            /\ context'[tsid[w]].state = COMPLETED]_vars

\* C14: on one connection a client message (a JSON frame; audio chunks are
\* binary frames without a seq) is passed to a handler only if its seq is
\* greater than the client_seq the session has recorded.
C14_ClientSeqOnce ==
    [][\A w \in WebSockets :
         (/\ pc[w] = "recv"
          /\ wsOpen[w]
          /\ Alone(w)
          /\ tsid[w] \in sessions
          /\ pc'[w] \notin {"recv", "done", "ch_stt"})
         => context'[tsid[w]].client_seq > context[tsid[w]].client_seq]_vars

\* ------------------------------------------------------------ scenarios
\* task w finishes handle_session_start with both of its writes done: it
\* resumes from the greeting's send_text, which did not raise (the greeting
\* is only written when the session.started write left the socket attached)
StartSucceeds(w) ==
    /\ pc[w] = "ss_send_greeting"
    /\ pc'[w] = "recv"
    /\ ~fail[w]
    /\ Alone(w)

\* C15 (as claimed): after a successful session start the session is READY
\* with server_seq = 1, the greeting being the only message emitted, and
\* turn_count = 0.
C15_StartSeqOne ==
    [][\A w \in WebSockets :
         StartSucceeds(w)
         => LET s == tsid[w]
            IN  /\ context'[s].state = READY
                /\ context'[s].server_seq = 1
                /\ context'[s].turn_count = 0
                /\ message_buffers'[s] = <<ServerMessage("ai.reply", 1)>>]_vars

\* C15 (amended): after a successful session start handled with no other
\* connection active, the session is READY with server_seq = 2 and
\* turn_count = 0; exactly two messages were emitted and written to the
\* client, session.started with seq 1 and then the greeting with seq 2.
C15_StartSeqTwo ==
    [][\A w \in WebSockets :
         StartSucceeds(w)
         => LET s == tsid[w]
                started == ServerMessage("session.started", 1)
                greeting == ServerMessage("ai.reply", 2)
            IN  /\ context'[s].state = READY
                /\ context'[s].server_seq = 2
                /\ context'[s].turn_count = 0
                /\ message_buffers'[s] = <<started, greeting>>
                /\ delivered' = <<[sid |-> s, ws |-> w, msg |-> started],
                                  [sid |-> s, ws |-> w, msg |-> greeting]>>]_vars

\* a session start has just succeeded on a connection acting alone
C15_Witness ==
    \E w \in WebSockets :
       /\ pc[w] = "recv"
       /\ Alone(w)
       /\ tsid[w] \in sessions
       /\ context[tsid[w]].state = READY
       /\ context[tsid[w]].server_seq = 2
       /\ context[tsid[w]].turn_count = 0
       /\ Len(delivered) = 2
       /\ delivered[2].msg = ServerMessage("ai.reply", 2)
       /\ delivered[2].ws = w

\* the replay buffer after a session start and one text-input turn
StartAndOneTurn ==
    <<ServerMessage("session.started", 1), ServerMessage("ai.reply", 2),
      ServerMessage("ai.reply", 3)>>

StartOnly ==
    <<ServerMessage("session.started", 1), ServerMessage("ai.reply", 2)>>

\* task w gets the reply of a text-input that is the first operation
\* after the session start
FirstTurnReplies(w) ==
    /\ pc[w] = "ti_gen"
    /\ pc'[w] \in {"resp_send", "recv"}
    /\ tsid[w] \in DOMAIN message_buffers
    /\ message_buffers[tsid[w]] = StartOnly
    /\ context[tsid[w]].turn_count = 0
    /\ context[tsid[w]].server_seq = 2

\* C17: a non-empty text-input handled directly after the session start
\* raises turn_count by exactly one, to 1, and emits exactly one message,
\* an ai-reply whose seq (3) is one greater than the greeting's (2).
C17_FirstTurn ==
    [][\A w \in WebSockets :
         FirstTurnReplies(w)
         => LET s == tsid[w]
            IN  /\ context'[s].turn_count = 1
                /\ context'[s].server_seq = 3
                /\ message_buffers'[s] =
                      Append(StartOnly, ServerMessage("ai.reply", 3))]_vars

\* the first turn after a start has been answered
C17_Witness ==
    \E w \in WebSockets :
       /\ pc[w] = "resp_send"
       /\ Alone(w)
       /\ tsid[w] \in DOMAIN message_buffers
       /\ message_buffers[tsid[w]] = StartAndOneTurn
       /\ context[tsid[w]].turn_count = 1
       /\ context[tsid[w]].server_seq = 3
       /\ delivered[Len(delivered)].msg = ServerMessage("ai.reply", 3)

\* the awaits of send_message's transport write, and those of them after
\* which the caller runs no further code before its next await
SendPcs ==
    {"ss_send_started", "ss_send_greeting", "rs_send_resumed", "resp_send",
     "ac_send_typing", "ac_send_reply", "se_send_summary", "ch_send"}

SendOnlyPcs ==
    {"ss_send_started", "rs_send_resumed", "resp_send", "ac_send_typing",
     "ch_send"}

\* task w resumes from a transport write that raised
WriteFails(w) ==
    /\ pc[w] \in SendPcs
    /\ fail[w]
    /\ pc'[w] # pc[w]

\* manager state m holds session s paused, detached and with a window
\* running from now
PausedDetached(m, s) ==
    /\ m.context[s].state = PAUSED
    /\ s \notin DOMAIN m.connections
    /\ s \in DOMAIN m.pending_reconnect
    /\ m.pending_reconnect[s] = now + reconnect_window

\* C18: when send_message finds a socket attached and the write fails, the
\* call returns without raising (the task goes on, it does not end), the
\* replay buffer keeps the message (the failure path leaves every buffer
\* as it is), and the session is left PAUSED, detached and with a
\* reconnection window started.
C18_SendFailureIsDisconnect ==
    [][\A w \in WebSockets :
         WriteFails(w)
         => LET s == tsid[w]
                m == send_message_done(Mgr, s, fail[w])
            IN  /\ pc'[w] # "done"
                /\ m.message_buffers = message_buffers
                /\ PausedDetached(m, s)
                /\ pc[w] \in SendOnlyPcs
                   => /\ message_buffers' = message_buffers
                      /\ context'[s].state = PAUSED
                      /\ s \notin DOMAIN connections'
                      /\ s \in DOMAIN pending_reconnect'
                      /\ pending_reconnect'[s] = now + reconnect_window]_vars

\* at most this many messages are buffered between two awaits
\* (summary_ready and session.ended of a session end with no socket)
MaxBurst == 2

\* buffer new comes from buffer old by sending k messages: the k newest
\* entries are the sent ones, before them come the newest entries of old,
\* and only as many of old's oldest are gone as the cap requires
SentInto(old, new, k) ==
    LET kept == Len(new) - k
    IN  /\ kept >= 0
        /\ Len(new) = IF Len(old) + k > max_buffer_size
                      THEN max_buffer_size ELSE Len(old) + k
        /\ SubSeq(new, 1, kept) = SubSeq(old, Len(old) - kept + 1, Len(old))
        /\ \A i \in (kept + 1)..Len(new) :
              \A j \in 1..Len(old) : new[i].seq > old[j].seq

\* C19: whatever has been sent, the replay buffer of a session holds at
\* most max_buffer_size messages, in increasing seq order, and they are the
\* most recently sent ones: the last entry is the newest message of the
\* session (its seq is server_seq), each send puts its message at the end
\* and, when the cap is exceeded, drops entries from the front only.
C19_BufferKeepsNewest ==
    /\ [](\A s \in DOMAIN message_buffers :
            /\ Len(message_buffers[s]) <= max_buffer_size
            /\ context[s].server_seq > 0
               => /\ message_buffers[s] # <<>>
                  /\ message_buffers[s][Len(message_buffers[s])].seq =
                        context[s].server_seq
            /\ \A i, j \in DOMAIN message_buffers[s] :
                  i < j => message_buffers[s][i].seq < message_buffers[s][j].seq)
    /\ [][\A s \in DOMAIN message_buffers \cap DOMAIN message_buffers' :
            message_buffers'[s] # message_buffers[s]
            => \E k \in 1..MaxBurst :
                  SentInto(message_buffers[s], message_buffers'[s], k)]_vars

\* a full buffer whose oldest messages have been evicted
C19_Witness ==
    \E s \in DOMAIN message_buffers :
       /\ Len(message_buffers[s]) = max_buffer_size
       /\ message_buffers[s][1].seq > 1
       /\ message_buffers[s][max_buffer_size].seq = context[s].server_seq

\* in this step task w calls handle_disconnect for its session as the last
\* thing before it suspends or ends: its receive found the socket closed,
\* or a write of send_message raised
Disconnects(w) ==
    \/ /\ pc[w] = "recv"
       /\ ~wsOpen[w]
       /\ pc'[w] = "done"
    \/ /\ WriteFails(w)
       /\ pc[w] \in SendOnlyPcs

\* C20: a disconnect on a live session in READY, LISTENING or PROCESSING
\* detaches its socket, sets its state to PAUSED and records the expiry of
\* the reconnection window at exactly reconnect_window after the time of
\* the disconnect; a disconnect for an id that is not in the session table
\* changes nothing.
C20_DisconnectPauses ==
    [][\A w \in WebSockets :
         Disconnects(w)
         => LET s == tsid[w]
            IN  /\ (/\ s \in sessions
                    /\ context[s].state \in {READY, LISTENING, PROCESSING})
                   => /\ s \notin DOMAIN connections'
                      /\ context'[s].state = PAUSED
                      /\ s \in DOMAIN pending_reconnect'
                      /\ pending_reconnect'[s] = now + reconnect_window
                      /\ s \in sessions'
                /\ s \notin sessions
                   => /\ sessions' = sessions
                      /\ context' = context
                      /\ connections' = connections
                      /\ pending_reconnect' = pending_reconnect
                      /\ message_buffers' = message_buffers]_vars

\* a session that was live and attached has just been disconnected
C20_Witness ==
    \E w \in WebSockets :
       /\ pc[w] = "done"
       /\ ~wsOpen[w]
       /\ tsid[w] \in sessions
       /\ context[tsid[w]].state = PAUSED
       /\ tsid[w] \notin DOMAIN connections
       /\ tsid[w] \in DOMAIN pending_reconnect
       /\ pending_reconnect[tsid[w]] = now + reconnect_window

\* manager state m is the state of Mgr after an end of session s that has
\* completed and released s and has left the session table and the replay
\* buffers as they were
EndedAndKept(m, s) ==
    /\ m.context[s].state = COMPLETED
    /\ s \notin DOMAIN m.connections
    /\ s \notin DOMAIN m.pending_reconnect
    /\ m.sessions = sessions
    /\ m.message_buffers = message_buffers

\* C21: end_session leaves the session COMPLETED with no socket and no
\* pending-reconnect marker, and does not touch the session table or the
\* replay buffers: the record and the buffer of the session stay; for an id
\* that is not in the session table it changes nothing.  Stated where the
\* storage write of end_session returns, in the session-end handler (on
\* the next state) and in the sweep (on end_session's result, which the
\* sweep goes on to evict in the same step).
C21_EndReleasesAndKeeps ==
    /\ [](\A s \in SessionIds :
            s \notin sessions => end_session_begin(Mgr, s) = Mgr)
    /\ [][/\ \A w \in WebSockets :
               (pc[w] = "se_db" /\ pc'[w] = "se_analysis")
               => /\ EndedAndKept(end_session_finish(Mgr, tsid[w]), tsid[w])
                  /\ context'[tsid[w]].state = COMPLETED
                  /\ tsid[w] \notin DOMAIN connections'
                  /\ tsid[w] \notin DOMAIN pending_reconnect'
                  /\ sessions' = sessions
                  /\ message_buffers' = message_buffers
          /\ (sweep_pc = "end_db" /\ sweep_expired' # sweep_expired)
             => EndedAndKept(end_session_finish(Mgr, Head(sweep_expired)),
                             Head(sweep_expired))]_vars

\* a session-end handler is past end_session: the session is completed and
\* released, its record and its buffered messages are still there
C21_Witness ==
    \E w \in WebSockets :
       /\ pc[w] = "se_analysis"
       /\ tsid[w] \in sessions
       /\ context[tsid[w]].state = COMPLETED
       /\ tsid[w] \notin DOMAIN connections
       /\ tsid[w] \notin DOMAIN pending_reconnect
       /\ tsid[w] \in DOMAIN message_buffers
       /\ Len(message_buffers[tsid[w]]) = 2

\* C22: when the quota service disallows the user (sessions or minutes
\* used up, or rate limited), the session start ends before create_session
\* is called: no storage row is allocated, no record, socket or replay
\* buffer is registered, and the tables of the manager are unchanged.
C22_QuotaRejectsBeforeCreate ==
    /\ [](\A sessions_used \in {0, monthly_sessions},
             minutes_used \in {0, monthly_minutes},
             requests \in {0, rate_limit} :
            (\/ sessions_used >= monthly_sessions
             \/ minutes_used >= monthly_minutes
             \/ requests >= rate_limit)
            => ~check_session_quota(sessions_used, minutes_used, requests))
    /\ [][\A w \in WebSockets :
            (pc[w] = "ss_quota" /\ pc'[w] \notin {"ss_quota", "ss_create"})
            => /\ pc'[w] = "done"
               /\ db_sessions' = db_sessions
               /\ sessions' = sessions
               /\ context' = context
               /\ connections' = connections
               /\ message_buffers' = message_buffers
               /\ pending_reconnect' = pending_reconnect
               /\ tsid'[w] = "none"]_vars

\* a start has been rejected and nothing is registered anywhere
C22_Witness ==
    \E w \in WebSockets :
       /\ pc[w] = "done"
       /\ tsid[w] = "none"
       /\ resumeInfo[w] = NoResume
       /\ db_sessions = {}
       /\ sessions = {}
       /\ DOMAIN connections = {}
       /\ DOMAIN message_buffers = {}

\* C23: create_session registers the record, the socket and the empty
\* replay buffer in one step, so every session in the session table has a
\* replay buffer at every moment; when the storage insert fails none of
\* the three is registered.
C23_CreateRegistersTogether ==
    /\ [](\A s \in sessions : s \in DOMAIN message_buffers)
    /\ [][\A w \in WebSockets :
            /\ (pc[w] = "ss_create" /\ pc'[w] = "ss_init")
               => /\ tsid'[w] \notin sessions
                  /\ tsid'[w] \in sessions'
                  /\ context'[tsid'[w]].state = READY
                  /\ tsid'[w] \in DOMAIN connections'
                  /\ connections'[tsid'[w]] = w
                  /\ tsid'[w] \in DOMAIN message_buffers'
                  /\ message_buffers'[tsid'[w]] = <<>>
            /\ (pc[w] = "ss_create" /\ pc'[w] = "done")
               => /\ sessions' = sessions
                  /\ context' = context
                  /\ connections' = connections
                  /\ message_buffers' = message_buffers
                  /\ db_sessions' = db_sessions]_vars

\* a session has just been created: record, socket and empty buffer
C23_Witness ==
    \E w \in WebSockets :
       /\ pc[w] = "ss_init"
       /\ tsid[w] \in sessions
       /\ tsid[w] \in DOMAIN connections
       /\ connections[tsid[w]] = w
       /\ tsid[w] \in DOMAIN message_buffers
       /\ message_buffers[tsid[w]] = <<>>

\* session s has been created and is no longer in the session table
Dropped(s) == s \in db_sessions /\ s \notin sessions

C25_AnalysisNeverFailsTurn ==
    [][\A w \in WebSockets :
         (pc[w] = "ac_features" /\ pc'[w] # "ac_features")
         => /\ pc'[w] \in {"ac_send_typing", "ac_gen"}
            /\ context'[tsid[w]].server_seq = context[tsid[w]].server_seq + 1]_vars

\* C26: every session that reaches COMPLETED, by a session-end or by the
\* expiry of its window, is removed from the session table in the end,
\* provided the cleanup task keeps running.
C26_CompletedEventuallyRemoved ==
    \A s \in SessionIds :
       (s \in sessions /\ context[s].state = COMPLETED) ~> (s \notin sessions)

\* in this step a ping or a get-status of task w is handled: its pong or
\* status message is handed to the send path
PingHandled(w) ==
    /\ pc[w] = "recv"
    /\ pc'[w] \in {"recv", "resp_send"}
    /\ tsid[w] \in DOMAIN message_buffers
    /\ tsid[w] \in DOMAIN message_buffers'
    /\ message_buffers'[tsid[w]] # message_buffers[tsid[w]]
    /\ message_buffers'[tsid[w]][Len(message_buffers'[tsid[w]])].type
          \in {"pong", "status"}

\* C27: handling a ping or a get-status refreshes last_activity_at and
\* takes one fresh server seq for the response, greater than every seq
\* emitted before, and changes nothing else of the session: state,
\* turn_count, audio counters, socket and pending-reconnect marker stay.
\* (The buffering of the response by the send path is left out here.)
C27_PingOnlyRefreshes ==
    [][\A w \in WebSockets :
         PingHandled(w)
         => LET s == tsid[w]
            IN  /\ context'[s].state = context[s].state
                /\ context'[s].turn_count = context[s].turn_count
                /\ context'[s].audio_chunks_received =
                      context[s].audio_chunks_received
                /\ context'[s].total_audio_ms = context[s].total_audio_ms
                /\ connections' = connections
                /\ pending_reconnect' = pending_reconnect
                /\ context'[s].server_seq = context[s].server_seq + 1
                /\ \A i \in DOMAIN message_buffers[s] :
                      message_buffers[s][i].seq < context'[s].server_seq
                /\ context'[s].last_activity_at = now]_vars

\* C28: at every moment a session with a pending-reconnect marker is
\* PAUSED and has no socket attached, and a session with a socket attached
\* has no marker, also when a send fails or a disconnect arrives in the
\* middle of a handler.
C28_MarkerMeansPaused ==
    \A s \in sessions :
       /\ s \in DOMAIN pending_reconnect
          => /\ context[s].state = PAUSED
             /\ s \notin DOMAIN connections
       /\ s \in DOMAIN connections => s \notin DOMAIN pending_reconnect

\* C29: the sweep ends and evicts only sessions whose window has elapsed:
\* a record leaves the session table only while it has a marker whose
\* expiry has passed and no socket attached; a session that is connected,
\* or whose window was restarted and is still open when the sweep comes
\* back from its storage write, keeps its record, buffer and marker.
C29_SweepEvictsOnlyExpired ==
    [][\A s \in SessionIds :
         (s \in sessions /\ s \notin sessions')
         => /\ s \notin DOMAIN connections
            /\ s \in DOMAIN pending_reconnect
            /\ now > pending_reconnect[s]]_vars
\* C30: on /ws/conversation/{session_id} the two tables of ConnectionManager
\* always hold the same keys, and whenever a coroutine that has registered
\* its session id returns, on any exit path, that id is in neither table
Registered(e) == cpc[e] \notin {"idle", "returned"}

C30_ReturnUnregisters ==
    /\ [](DOMAIN active_connections = DOMAIN session_data)
    /\ [][\A e \in Endpoints :
            Registered(e) /\ cpc'[e] = "returned"
                => /\ csid[e] \notin DOMAIN active_connections'
                   /\ csid[e] \notin DOMAIN session_data']_vars

====
